---- MODULE Spec2Model ----
(***************************************************************************)
(* A model of survey_subsampling/subsample.py:                             *)
(*   - calculate_feature_importance (consistency report, fused ranking),   *)
(*   - degrading_fit (the parallel sweep over shrinking feature prefixes), *)
(*   - run (the NaN-LR+ filter between the baseline fit and later stages), *)
(*   - load_data (the iterative pruning loop).                             *)
(* Each function has its own variables and its own specification; the      *)
(* variables of the other functions stay at their initial values.          *)
(***************************************************************************)
EXTENDS Integers, Sequences, FiniteSets, TLC

\* ------------------------------------------------------------------ bounds
MaxFeatures == 3     \* longest feature list
MaxNQ == 4           \* largest number_of_questions
MaxThreads == 2      \* largest worker count
MaxY == 2            \* most diagnoses handed to a sweep
MaxRows == 4         \* most rows of the input dataset
MaxThreshold == 2    \* largest prevalence threshold
MaxDx == 3           \* most diagnoses returned by load_data to run

\* A missing value (NaN) in a table cell; every real value is >= 0.
NaN == -1

\* -------------------------------------------------------- generic helpers
Min(a, b) == IF a <= b THEN a ELSE b
Abs(a) == IF a >= 0 THEN a ELSE -a
ToSet(s) == {s[i] : i \in 1..Len(s)}
\* Python's s[a:b] for 0 <= a and 0 <= b: out-of-range ends are clipped.
Slice(s, a, b) == SubSeq(s, a + 1, Min(b, Len(s)))
\* Sequences over S of length n without repetition.
Orderings(S, n) == {s \in [1..n -> S] : \A i, j \in 1..n : s[i] = s[j] => i = j}
\* 0-based position of x in s.
PositionIn(s, x) == (CHOOSE i \in 1..Len(s) : s[i] = x) - 1
\* Number of occurrences of e in s.
CountIn(s, e) == Cardinality({i \in 1..Len(s) : s[i] = e})
SameBag(s, t) == /\ Len(s) = Len(t)
                 /\ \A e \in ToSet(s) \cup ToSet(t) : CountIn(s, e) = CountIn(t, e)

VARIABLES
  \* calculate_feature_importance
  x_ids_sorted_by_aggregate, x_ids_sorted_by_topn, number_of_questions,
  cfi_pc, diff, frac, x_ids_sorted_average,
  \* degrading_fit
  sorted_x_ids, y_ids, threads, failing, deg_pc, n_questions, futures, workers,
  yielded, degraded_tuple, degraded_learners, degraded_summaries, exc_task,
  \* run
  run_pc, loaded_Dx, Dx_labels_subset, learners, summaries, baseline_summaries,
  learners_parquet, summaries_parquet, cfi_learners, deg_y_ids,
  \* load_data
  ld_pc, threshold, df_full, df, df_prev, ld_Dx_labels_subset, low_N

cfi_vars == <<x_ids_sorted_by_aggregate, x_ids_sorted_by_topn, number_of_questions,
              cfi_pc, diff, frac, x_ids_sorted_average>>

deg_vars == <<sorted_x_ids, y_ids, threads, failing, deg_pc, n_questions, futures,
              workers, yielded, degraded_tuple, degraded_learners,
              degraded_summaries, exc_task>>

run_vars == <<run_pc, loaded_Dx, Dx_labels_subset, learners, summaries,
              baseline_summaries, learners_parquet, summaries_parquet, cfi_learners, deg_y_ids>>

ld_vars == <<ld_pc, threshold, df_full, df, df_prev, ld_Dx_labels_subset, low_N>>

vars == <<cfi_vars, deg_vars, run_vars, ld_vars>>

\* ------------------------------------------- calculate_feature_importance
\* The feature identifiers are 1..n.  The two orderings are the results of
\* sorting.aggregate_sort and sorting.topn_sort: permutations of the features.

\* list(set(list(agg_slice) + list(topn_slice)))
AllQs(agg_slice, topn_slice) == ToSet(agg_slice) \cup ToSet(topn_slice)

\* The count without np.abs.
SortingDiffUnsigned(nq, all_qs) == nq - Cardinality(all_qs)
\* diff = np.abs(number_of_questions - len(all_qs))
SortingDiff(nq, all_qs) == Abs(nq - Cardinality(all_qs))

\* frac = 1.0 * diff / number_of_questions * 100, kept as the exact rational
\* <<numerator, denominator>>.
SortingFrac(d, nq) == <<d * 100, nq>>

\* np.mean(np.where(agg[:, None] == topn), axis=0): entry i is the mean of the
\* 0-based row index i and the column index of agg[i] in topn.  The model keeps
\* twice the mean (the sum), so that it stays an integer.
AvgRank(agg, topn) == [i \in 1..Len(agg) |-> (i - 1) + PositionIn(topn, agg[i])]

\* An argsort that puts the keys in descending order.
ArgsortDescending(keys) ==
  {p \in Orderings(DOMAIN keys, Len(keys)) :
     \A i \in 1..(Len(keys) - 1) : keys[p[i]] >= keys[p[i + 1]]}
\* np.argsort(keys) with the default kind ("quicksort"), which is not stable:
\* any index permutation that puts the keys in ascending order may come out.
Argsort(keys) ==
  {p \in Orderings(DOMAIN keys, Len(keys)) :
     \A i \in 1..(Len(keys) - 1) : keys[p[i]] <= keys[p[i + 1]]}

CFIIdle ==
  /\ x_ids_sorted_by_aggregate = <<>>
  /\ x_ids_sorted_by_topn = <<>>
  /\ number_of_questions = 1
  /\ cfi_pc = "idle"
  /\ diff = 0
  /\ frac = <<0, 1>>
  /\ x_ids_sorted_average = <<>>

InitCFI ==
  /\ \E n \in 1..MaxFeatures :
       /\ x_ids_sorted_by_aggregate \in Orderings(1..n, n)
       /\ x_ids_sorted_by_topn \in Orderings(1..n, n)
  /\ number_of_questions \in 1..MaxNQ
  /\ cfi_pc = "called"
  /\ diff = 0
  /\ frac = <<0, 1>>
  /\ x_ids_sorted_average = <<>>

CalculateFeatureImportance ==
  /\ cfi_pc = "called"
  /\ LET sorted_importance_agg == Slice(x_ids_sorted_by_aggregate, 0, number_of_questions)
         sorted_importance_topn == Slice(x_ids_sorted_by_topn, 0, number_of_questions)
         all_qs == AllQs(sorted_importance_agg, sorted_importance_topn)
         d == SortingDiff(number_of_questions, all_qs)
         avg_rank == AvgRank(x_ids_sorted_by_aggregate, x_ids_sorted_by_topn)
     IN /\ diff' = d
        /\ frac' = SortingFrac(d, number_of_questions)
        /\ \E p \in Argsort(avg_rank) :
             x_ids_sorted_average' =
               [i \in 1..Len(p) |-> x_ids_sorted_by_aggregate[p[i]]]
  /\ cfi_pc' = "returned"
  /\ UNCHANGED <<x_ids_sorted_by_aggregate, x_ids_sorted_by_topn, number_of_questions>>

\* ------------------------------------------------------------ degrading_fit
\* np.random.seed(42) at the top of fit_models: the worker process's global
\* random state becomes the seed's state, whatever it was.
Seed == 42
\* fit_models without the np.random.seed call: the state stays as it was.
NpRandomSeedSkipped(rng) == rng
NpRandomSeed(rng) == Seed

\* One row of a result table for diagnosis dx: the feature columns it was
\* fitted on and the random state the fits started from, which stands for
\* every number the seeded estimators produce.
ResultRow(dx, x_ids, rs) == [Dx |-> dx, x_ids |-> x_ids, rs |-> rs]

\* fit_models(df, x_ids, y_ids): the learners and summaries tables, one row
\* per entry of y_ids, and the state the fits leave the global generator in.
FitModels(x_ids, ys, rng) ==
  LET rs == NpRandomSeed(rng)
  IN [learners |-> [i \in 1..Len(ys) |-> ResultRow(ys[i], x_ids, rs)],
      summaries |-> [i \in 1..Len(ys) |-> ResultRow(ys[i], x_ids, rs)],
      rng_out |-> rs + Len(ys) * Len(x_ids)]

\* The slice sorted_x_ids[0 : n_questions], one feature short.
FeaturePrefixOffByOne(ranked, nq) == Slice(ranked, 0, nq)
\* xi = sorted_x_ids[0 : n_questions + 1]
FeaturePrefix(ranked, nq) == Slice(ranked, 0, nq + 1)

\* A pool that is shut down without waiting (shutdown(wait=False)).
PoolShutdownNoWait(fs) == TRUE
\* Leaving the "with ProcessPoolExecutor(...)" block calls shutdown(wait=True):
\* control passes only when every submitted future has finished.
PoolShutdownWait(fs) == \A i \in 1..Len(fs) : fs[i].state = "FINISHED"

\* degraded_tuple = [future.result()]: the list is replaced, not extended.
StoreResultOverwrite(tuple, res) == <<res>>
\* degraded_tuple.append(future.result())
StoreResult(tuple, res) == Append(tuple, res)

\* pd.concat of a list of tables: the rows of each, in list order.
RECURSIVE Concat(_)
Concat(tables) ==
  IF tables = <<>> THEN <<>> ELSE Head(tables) \o Concat(Tail(tables))

NoOutcome == [ok |-> TRUE, learners |-> <<>>, summaries |-> <<>>]

DegIdle ==
  /\ sorted_x_ids = <<>>
  /\ y_ids = <<>>
  /\ threads = 1
  /\ failing = {}
  /\ deg_pc = "idle"
  /\ n_questions = 0
  /\ futures = <<>>
  /\ workers = <<>>
  /\ yielded = {}
  /\ degraded_tuple = <<>>
  /\ degraded_learners = <<>>
  /\ degraded_summaries = <<>>
  /\ exc_task = 0

\* The ranked lists of n features: the features in ascending and in descending
\* order of their identifiers (the sweep never looks into an identifier).
RankedLists(n) == {[i \in 1..n |-> i], [i \in 1..n |-> n + 1 - i]}

\* The ranked list has 0 to MaxFeatures features, the diagnosis list is
\* d1..dm, fit_models raises on the prefix lengths in failing, and every
\* worker process starts with a random state of its own, none the seed's.
InitDeg ==
  /\ \E n \in 0..MaxFeatures :
       /\ sorted_x_ids \in RankedLists(n)
       /\ failing \in SUBSET (1..n)
       /\ n_questions = n - 1
  /\ \E m \in 1..MaxY : y_ids = [i \in 1..m |-> i]
  /\ threads \in 1..MaxThreads
  /\ workers \in [1..threads -> [task : {0}, rng : {0, 1}]]
  /\ deg_pc = "submit"
  /\ futures = <<>>
  /\ yielded = {}
  /\ degraded_tuple = <<>>
  /\ degraded_learners = <<>>
  /\ degraded_summaries = <<>>
  /\ exc_task = 0

\* One pass of "for n_questions in range(len(sorted_x_ids))[::-1]".
Submit ==
  /\ deg_pc = "submit"
  /\ n_questions >= 0
  /\ futures' = Append(futures,
                   [x_ids |-> FeaturePrefix(sorted_x_ids, n_questions),
                    y_ids |-> y_ids, state |-> "PENDING", outcome |-> NoOutcome])
  /\ n_questions' = n_questions - 1
  /\ UNCHANGED <<sorted_x_ids, y_ids, threads, failing, deg_pc, workers, yielded,
                 degraded_tuple, degraded_learners, degraded_summaries, exc_task>>

\* The loop is over and the with-block is left.
ExitPool ==
  /\ deg_pc = "submit"
  /\ n_questions < 0
  /\ PoolShutdownWait(futures)
  /\ deg_pc' = "collect"
  /\ UNCHANGED <<sorted_x_ids, y_ids, threads, failing, n_questions, futures, workers,
                 yielded, degraded_tuple, degraded_learners, degraded_summaries,
                 exc_task>>

\* An idle worker process takes the oldest pending work item.
WorkerStart(w) ==
  /\ workers[w].task = 0
  /\ \E i \in 1..Len(futures) :
       /\ futures[i].state = "PENDING"
       /\ \A j \in 1..(i - 1) : futures[j].state # "PENDING"
       /\ futures' = [futures EXCEPT ![i].state = "RUNNING"]
       /\ workers' = [workers EXCEPT ![w].task = i]
  /\ UNCHANGED <<sorted_x_ids, y_ids, threads, failing, deg_pc, n_questions, yielded,
                 degraded_tuple, degraded_learners, degraded_summaries, exc_task>>

\* The worker's fit_models call ends: with its two tables, or with an exception.
WorkerFinish(w) ==
  /\ workers[w].task # 0
  /\ LET i == workers[w].task
         r == FitModels(futures[i].x_ids, futures[i].y_ids, workers[w].rng)
         out == IF Len(futures[i].x_ids) \in failing
                THEN [ok |-> FALSE, learners |-> <<>>, summaries |-> <<>>]
                ELSE [ok |-> TRUE, learners |-> r.learners, summaries |-> r.summaries]
     IN /\ futures' = [futures EXCEPT ![i].state = "FINISHED", ![i].outcome = out]
        /\ workers' = [workers EXCEPT ![w].task = 0, ![w].rng = r.rng_out]
  /\ UNCHANGED <<sorted_x_ids, y_ids, threads, failing, deg_pc, n_questions, yielded,
                 degraded_tuple, degraded_learners, degraded_summaries, exc_task>>

\* One pass of "for future in as_completed(futures)": as_completed hands over a
\* finished future it has not handed over yet; future.result() returns the
\* task's tables or raises the task's exception.
Collect ==
  /\ deg_pc = "collect"
  /\ \E i \in 1..Len(futures) :
       /\ i \notin yielded
       /\ futures[i].state = "FINISHED"
       /\ yielded' = yielded \cup {i}
       /\ IF futures[i].outcome.ok
          THEN /\ degraded_tuple' = StoreResult(degraded_tuple,
                                       <<futures[i].outcome.learners,
                                         futures[i].outcome.summaries>>)
               /\ UNCHANGED <<deg_pc, exc_task>>
          ELSE /\ deg_pc' = "raised"
               /\ exc_task' = Len(futures[i].x_ids)
               /\ UNCHANGED degraded_tuple
  /\ UNCHANGED <<sorted_x_ids, y_ids, threads, failing, n_questions, futures, workers,
                 degraded_learners, degraded_summaries>>

\* as_completed is exhausted: split the tuples, concatenate, return.  pd.concat
\* raises ValueError on an empty list.
Return ==
  /\ deg_pc = "collect"
  /\ yielded = 1..Len(futures)
  /\ IF degraded_tuple = <<>>
     THEN /\ deg_pc' = "raised_concat"
          /\ UNCHANGED <<degraded_learners, degraded_summaries>>
     ELSE /\ degraded_summaries' =
               Concat([k \in 1..Len(degraded_tuple) |-> degraded_tuple[k][2]])
          /\ degraded_learners' =
               Concat([k \in 1..Len(degraded_tuple) |-> degraded_tuple[k][1]])
          /\ deg_pc' = "done"
  /\ UNCHANGED <<sorted_x_ids, y_ids, threads, failing, n_questions, futures, workers,
                 yielded, degraded_tuple, exc_task>>

\* ---------------------------------------------------------------------- run
\* A table is a function from its index labels to its rows.  A row of the
\* summaries table is its "LR+" cell; a row of the learners table is the
\* diagnosis it belongs to.
EmptyTable == [d \in {} |-> 0]
\* table.loc[labels]
Loc(table, labels) == [d \in labels |-> table[d]]

\* A filter that removes nothing.
KeepAllLabels(labels, summ) == labels
\* set(Dx_labels_subset) - set(summaries[summaries["LR+"].isna()].index)
DropNaNLabels(labels, summ) == labels \ {d \in DOMAIN summ : summ[d] = NaN}

\* The mean LR+ fit_models can report for a diagnosis: undefined or a ratio.
LRpValues == {NaN, 0, 2}

RunIdle ==
  /\ run_pc = "idle"
  /\ loaded_Dx = {}
  /\ Dx_labels_subset = {}
  /\ learners = EmptyTable
  /\ summaries = EmptyTable
  /\ baseline_summaries = EmptyTable
  /\ learners_parquet = EmptyTable
  /\ summaries_parquet = EmptyTable
  /\ cfi_learners = EmptyTable
  /\ deg_y_ids = {}

\* load_data is about to return some set of diagnoses.
InitRun ==
  /\ run_pc = "load"
  /\ loaded_Dx \in SUBSET (1..MaxDx)
  /\ Dx_labels_subset = {}
  /\ learners = EmptyTable
  /\ summaries = EmptyTable
  /\ baseline_summaries = EmptyTable
  /\ learners_parquet = EmptyTable
  /\ summaries_parquet = EmptyTable
  /\ cfi_learners = EmptyTable
  /\ deg_y_ids = {}

\* df, df_prev, Dx_labels_subset = load_data(...)
RunLoadData ==
  /\ run_pc = "load"
  /\ Dx_labels_subset' = loaded_Dx
  /\ run_pc' = "baseline"
  /\ UNCHANGED <<loaded_Dx, baseline_summaries, learners, summaries, learners_parquet, summaries_parquet,
                 cfi_learners, deg_y_ids>>

\* learners, summaries = fit_models(df, CBCLABCL_items, Dx_labels_subset): one
\* row per diagnosis in both tables; an undefined likelihood ratio is a NaN
\* cell, not an exception.
RunBaselineFit ==
  /\ run_pc = "baseline"
  /\ summaries' \in [Dx_labels_subset -> LRpValues]
  /\ baseline_summaries' = summaries'
  /\ learners' = [d \in Dx_labels_subset |-> d]
  /\ run_pc' = "filter"
  /\ UNCHANGED <<loaded_Dx, Dx_labels_subset, learners_parquet, summaries_parquet,
                 cfi_learners, deg_y_ids>>

RunFilterLabels ==
  /\ run_pc = "filter"
  /\ Dx_labels_subset' = DropNaNLabels(Dx_labels_subset, summaries)
  /\ run_pc' = "save_learners"
  /\ UNCHANGED <<loaded_Dx, baseline_summaries, learners, summaries, learners_parquet, summaries_parquet,
                 cfi_learners, deg_y_ids>>

\* learners = learners.loc[Dx_labels_subset]; learners.to_parquet(...)
RunSaveLearners ==
  /\ run_pc = "save_learners"
  /\ learners' = Loc(learners, Dx_labels_subset)
  /\ learners_parquet' = learners'
  /\ run_pc' = "save_summaries"
  /\ UNCHANGED <<loaded_Dx, baseline_summaries, Dx_labels_subset, summaries, summaries_parquet,
                 cfi_learners, deg_y_ids>>

\* summaries = summaries.loc[Dx_labels_subset]; summaries.to_parquet(...)
RunSaveSummaries ==
  /\ run_pc = "save_summaries"
  /\ summaries' = Loc(summaries, Dx_labels_subset)
  /\ summaries_parquet' = summaries'
  /\ run_pc' = "importance"
  /\ UNCHANGED <<loaded_Dx, baseline_summaries, Dx_labels_subset, learners, learners_parquet,
                 cfi_learners, deg_y_ids>>

\* calculate_feature_importance(learners, ...)
RunImportance ==
  /\ run_pc = "importance"
  /\ cfi_learners' = learners
  /\ run_pc' = "degrading"
  /\ UNCHANGED <<loaded_Dx, baseline_summaries, Dx_labels_subset, learners, summaries, learners_parquet,
                 summaries_parquet, deg_y_ids>>

\* degrading_fit(df, sorted_avg, Dx_labels_subset, ...)
RunDegradingFit ==
  /\ run_pc = "degrading"
  /\ deg_y_ids' = Dx_labels_subset
  /\ run_pc' = "done"
  /\ UNCHANGED <<loaded_Dx, baseline_summaries, Dx_labels_subset, learners, summaries, learners_parquet,
                 summaries_parquet, cfi_learners>>

\* ---------------------------------------------------------------- load_data
\* constants.Dx_labels_all: the diagnosis columns of the input file.
Dx_labels_all == {1, 2}

\* A row of the input table: its index idx, the cell x of the survey item
\* columns (constants.CBCLABCL_items, one column here) and one cell per
\* diagnosis column.  Raw diagnosis cells are 0, 2 or missing.
RowOfCode(c) ==
  [x |-> IF c % 2 = 0 THEN NaN ELSE 1,
   dx |-> [d \in Dx_labels_all |->
             LET v == IF d = 1 THEN (c \div 2) % 3 ELSE (c \div 6) % 3
             IN IF v = 0 THEN NaN ELSE IF v = 1 THEN 0 ELSE 2]]
RowCodes == 0..17

RECURSIVE SortedCodes(_, _)
\* The lists of n row codes, each at least lo, in non-decreasing order.
SortedCodes(n, lo) ==
  IF n = 0 THEN {<<>>}
  ELSE UNION {{<<c>> \o rest : rest \in SortedCodes(n - 1, c)} :
                c \in {k \in RowCodes : k >= lo}}

\* df_full[Dx_labels_all].replace({2.0: 1, 0.0: 0})
ReplaceLabels(rows) ==
  [i \in 1..Len(rows) |->
     [rows[i] EXCEPT !.dx = [d \in Dx_labels_all |->
                               IF rows[i].dx[d] = 2 THEN 1 ELSE rows[i].dx[d]]]]

RowComplete(r) == r.x # NaN /\ \A d \in DOMAIN r.dx : r.dx[d] # NaN

RECURSIVE DropNa(_)
\* rows.dropna(axis=0, how="any")
DropNa(rows) ==
  IF rows = <<>> THEN <<>>
  ELSE IF RowComplete(Head(rows)) THEN <<Head(rows)>> \o DropNa(Tail(rows))
       ELSE DropNa(Tail(rows))

\* A column selector that ignores drop=True.
ColumnSelectorNeverDrops(rows, dxs, drop) ==
  [i \in 1..Len(rows) |->
     [idx |-> rows[i].idx, x |-> rows[i].x, dx |-> [d \in dxs |-> rows[i].dx[d]]]]
\* _column_selector(df, np.append(CBCLABCL_items, dxs), drop)
ColumnSelector(rows, dxs, drop) ==
  LET picked == [i \in 1..Len(rows) |->
                   [idx |-> rows[i].idx, x |-> rows[i].x,
                    dx |-> [d \in dxs |-> rows[i].dx[d]]]]
  IN IF drop THEN DropNa(picked) ELSE picked

\* df[dx].value_counts().loc[v]: the number of rows whose dx cell is v.
ValueCount(rows, d, v) == Cardinality({i \in 1..Len(rows) : rows[i].dx[d] = v})

\* _get_prevalance raises KeyError when a diagnosis has no 0 or no 1 among the
\* rows (vc.loc), and when there is no diagnosis at all (set_index("Dx")).
PrevalanceRaises(rows, dxs) ==
  \/ dxs = {}
  \/ \E d \in dxs : ValueCount(rows, d, 0) = 0 \/ ValueCount(rows, d, 1) = 0

\* _get_prevalance(df, diagnoses)
GetPrevalance(rows, dxs) ==
  [d \in dxs |-> [HC |-> ValueCount(rows, d, 0), Pt |-> ValueCount(rows, d, 1)]]

\* df_prev[df_prev["Pt"] < threshold].index
LowPrevalance(prev, thr) == {d \in DOMAIN prev : prev[d].Pt < thr}

NoPrev == [d \in {} |-> [HC |-> 0, Pt |-> 0]]

LoadIdle ==
  /\ ld_pc = "idle"
  /\ threshold = 1
  /\ df_full = <<>>
  /\ df = <<>>
  /\ df_prev = NoPrev
  /\ ld_Dx_labels_subset = {}
  /\ low_N = TRUE

\* The input file holds up to MaxRows rows (listed in the order of their
\* codes: no step depends on the order of the rows).
InitLoad ==
  /\ ld_pc = "start"
  /\ threshold \in 1..MaxThreshold
  /\ \E n \in 0..MaxRows :
       \E codes \in SortedCodes(n, 0) :
         df_full = [i \in 1..n |->
                      [idx |-> i, x |-> RowOfCode(codes[i]).x,
                       dx |-> RowOfCode(codes[i]).dx]]
  /\ df = <<>>
  /\ df_prev = NoPrev
  /\ ld_Dx_labels_subset = {}
  /\ low_N = TRUE

\* Lines 32-67: read, relabel, the prevalence over the sparse table, and the
\* first removal of low-prevalence diagnoses.
LoadInitialPrevalance ==
  /\ ld_pc = "start"
  /\ LET full == ReplaceLabels(df_full)
         sparse == ColumnSelector(full, Dx_labels_all, FALSE)
     IN /\ df_full' = full
        /\ IF PrevalanceRaises(sparse, Dx_labels_all)
           THEN /\ ld_pc' = "raised"
                /\ UNCHANGED <<df, df_prev, ld_Dx_labels_subset>>
           ELSE /\ df' = sparse
                /\ df_prev' = GetPrevalance(sparse, Dx_labels_all)
                /\ ld_Dx_labels_subset' =
                     DOMAIN df_prev' \ LowPrevalance(df_prev', threshold)
                /\ ld_pc' = "loop"
  /\ low_N' = TRUE
  /\ UNCHANGED threshold

\* One pass of "while low_N" (lines 68-81).
LoadPruningPass ==
  /\ ld_pc = "loop"
  /\ low_N
  /\ LET dense == ColumnSelector(df_full, ld_Dx_labels_subset, TRUE)
     IN /\ df' = dense
        /\ IF PrevalanceRaises(dense, ld_Dx_labels_subset)
           THEN /\ ld_pc' = "raised"
                /\ UNCHANGED <<df_prev, ld_Dx_labels_subset, low_N>>
           ELSE /\ df_prev' = GetPrevalance(dense, ld_Dx_labels_subset)
                /\ low_N' = (LowPrevalance(df_prev', threshold) # {})
                /\ ld_Dx_labels_subset' =
                     IF low_N'
                     THEN ld_Dx_labels_subset \ LowPrevalance(df_prev', threshold)
                     ELSE ld_Dx_labels_subset
                /\ UNCHANGED ld_pc
  /\ UNCHANGED <<threshold, df_full>>

\* The loop is left: return df, df_prev, Dx_labels_subset.
LoadReturn ==
  /\ ld_pc = "loop"
  /\ ~low_N
  /\ ld_pc' = "returned"
  /\ UNCHANGED <<threshold, df_full, df, df_prev, ld_Dx_labels_subset, low_N>>

\* --------------------------------------------------------- specifications
NextCFI == CalculateFeatureImportance /\ UNCHANGED <<deg_vars, run_vars, ld_vars>>

InitCFIOnly == InitCFI /\ DegIdle /\ RunIdle /\ LoadIdle

SpecCFI == InitCFIOnly /\ [][NextCFI]_vars

NextDeg ==
  \/ (Submit /\ UNCHANGED <<cfi_vars, run_vars, ld_vars>>)
  \/ (ExitPool /\ UNCHANGED <<cfi_vars, run_vars, ld_vars>>)
  \/ (\E w \in 1..threads : WorkerStart(w) /\ UNCHANGED <<cfi_vars, run_vars, ld_vars>>)
  \/ (\E w \in 1..threads : WorkerFinish(w) /\ UNCHANGED <<cfi_vars, run_vars, ld_vars>>)
  \/ (Collect /\ UNCHANGED <<cfi_vars, run_vars, ld_vars>>)
  \/ (Return /\ UNCHANGED <<cfi_vars, run_vars, ld_vars>>)

InitDegOnly == InitDeg /\ CFIIdle /\ RunIdle /\ LoadIdle

SpecDeg == InitDegOnly /\ [][NextDeg]_vars

NextRun ==
  \/ (RunLoadData /\ UNCHANGED <<cfi_vars, deg_vars, ld_vars>>)
  \/ (RunBaselineFit /\ UNCHANGED <<cfi_vars, deg_vars, ld_vars>>)
  \/ (RunFilterLabels /\ UNCHANGED <<cfi_vars, deg_vars, ld_vars>>)
  \/ (RunSaveLearners /\ UNCHANGED <<cfi_vars, deg_vars, ld_vars>>)
  \/ (RunSaveSummaries /\ UNCHANGED <<cfi_vars, deg_vars, ld_vars>>)
  \/ (RunImportance /\ UNCHANGED <<cfi_vars, deg_vars, ld_vars>>)
  \/ (RunDegradingFit /\ UNCHANGED <<cfi_vars, deg_vars, ld_vars>>)

InitRunOnly == InitRun /\ CFIIdle /\ DegIdle /\ LoadIdle

SpecRun == InitRunOnly /\ [][NextRun]_vars

NextLoad ==
  \/ (LoadInitialPrevalance /\ UNCHANGED <<cfi_vars, deg_vars, run_vars>>)
  \/ (LoadPruningPass /\ UNCHANGED <<cfi_vars, deg_vars, run_vars>>)
  \/ (LoadReturn /\ UNCHANGED <<cfi_vars, deg_vars, run_vars>>)

InitLoadOnly == InitLoad /\ CFIIdle /\ DegIdle /\ RunIdle

\* load_data is sequential code: a step that can be taken is taken.
SpecLoad == InitLoadOnly /\ [][NextLoad]_vars /\ WF_vars(NextLoad)

\* ---------------------------------------------------- claims on degrading_fit
AllFinished == \A i \in 1..Len(futures) : futures[i].state = "FINISHED"
\* The prefix of the ranked list of length k.
RankedPrefix(k) == SubSeq(sorted_x_ids, 1, k)

\* C1: the j-th submitted task carries the first n-j+1 ranked features in
\* their order and the caller's diagnosis list, never an empty feature list;
\* once the loop is over exactly n tasks were submitted (n first, 1 last).
C1_SubmitsEveryPrefixDescending ==
  /\ \A j \in 1..Len(futures) :
       /\ futures[j].x_ids = RankedPrefix(Len(sorted_x_ids) - j + 1)
       /\ Len(futures[j].x_ids) >= 1
       /\ futures[j].y_ids = y_ids
  /\ Len(futures) <= Len(sorted_x_ids)
  /\ (deg_pc # "submit" \/ n_questions < 0) => Len(futures) = Len(sorted_x_ids)

\* C1 witness: a sweep over three features submitted its three tasks.
C1_Witness ==
  /\ deg_pc = "done"
  /\ Len(sorted_x_ids) >= 3
  /\ Len(futures) = Len(sorted_x_ids)
  /\ Len(futures[Len(futures)].x_ids) = 1

\* C2: degrading_fit ends only when every submitted task has finished, and
\* when it returns, every task's result is in the returned tables exactly
\* once: n results of Len(y_ids) rows each.  A sweep whose tasks all succeed
\* does not end with a task's exception.
C2_FullBarrierAllResultsOnce ==
  /\ deg_pc \in {"done", "raised", "raised_concat"} =>
        (AllFinished /\ Len(futures) = Len(sorted_x_ids))
  /\ (deg_pc = "raised" \/ (deg_pc = "raised_concat" /\ Len(sorted_x_ids) >= 1)) =>
        failing # {}
  /\ deg_pc = "done" =>
        /\ Len(degraded_tuple) = Len(sorted_x_ids)
        /\ \A i \in 1..Len(futures) :
              /\ Cardinality({k \in 1..Len(degraded_tuple) :
                                degraded_tuple[k] = <<futures[i].outcome.learners,
                                                      futures[i].outcome.summaries>>}) = 1
              /\ Len(futures[i].outcome.learners) = Len(y_ids)
              /\ \A r \in 1..Len(y_ids) :
                    /\ CountIn(degraded_learners, futures[i].outcome.learners[r]) = 1
                    /\ CountIn(degraded_summaries, futures[i].outcome.summaries[r]) = 1
        /\ Len(degraded_learners) = Len(sorted_x_ids) * Len(y_ids)
        /\ Len(degraded_summaries) = Len(sorted_x_ids) * Len(y_ids)

\* C2 witness: two workers, three tasks, and the first collected result is not
\* that of the first submitted task.
C2_Witness ==
  /\ deg_pc = "done"
  /\ threads >= 2
  /\ Len(sorted_x_ids) >= 3
  /\ Len(y_ids) >= 2
  /\ degraded_learners[1].x_ids # sorted_x_ids

\* C3: a sweep with a failing task never returns tables; it ends with the
\* exception of a failing task, and only once every submitted task has
\* finished; the results collected before the exception are not returned.
C3_TaskExceptionSurfacesAfterAll ==
  /\ deg_pc = "done" =>
        /\ failing = {}
        /\ \A i \in 1..Len(futures) : futures[i].outcome.ok
  /\ deg_pc = "raised" =>
        /\ exc_task \in failing
        /\ Len(futures) = Len(sorted_x_ids)
        /\ AllFinished
        /\ \A w \in 1..threads : workers[w].task = 0
        /\ degraded_learners = <<>> /\ degraded_summaries = <<>>

\* C3 witness: one of three tasks failed, another task's result had already
\* been collected, and the sweep ended with the failing task's exception.
C3_Witness ==
  /\ deg_pc = "raised"
  /\ Len(sorted_x_ids) >= 3
  /\ Cardinality(failing) = 1
  /\ exc_task \in failing
  /\ Len(degraded_tuple) >= 1

\* The rows a sweep over these inputs returns, whatever the schedule: for
\* every prefix length and diagnosis the row fitted from the fixed seed.
ExpectedRows ==
  Concat([k \in 1..Len(sorted_x_ids) |->
            [i \in 1..Len(y_ids) |-> ResultRow(y_ids[i], RankedPrefix(k), Seed)]])

\* C4: the rows degrading_fit returns are, as a multiset, a function of its
\* inputs alone: they do not depend on completion order, on the worker that
\* ran a task, or on what that worker ran (or was seeded with) before.
C4_SweepRowsDeterministic ==
  deg_pc = "done" =>
    /\ SameBag(degraded_learners, ExpectedRows)
    /\ SameBag(degraded_summaries, ExpectedRows)

\* C4 witness: a single worker, whose random state was not the seed's when it
\* started, ran all three tasks one after the other and has used its
\* generator, and the rows came back in another order than the tasks were
\* submitted in.
C4_Witness ==
  /\ deg_pc = "done"
  /\ threads = 1
  /\ Len(sorted_x_ids) >= 3
  /\ degraded_learners[1].x_ids # sorted_x_ids
  /\ workers[1].rng # Seed

\* ------------------------------------ claims on calculate_feature_importance
AggSlice == Slice(x_ids_sorted_by_aggregate, 0, number_of_questions)
TopnSlice == Slice(x_ids_sorted_by_topn, 0, number_of_questions)
SymmetricDifference(A, B) == (A \ B) \cup (B \ A)
\* Twice the mean position of feature f over the two orderings.
MeanPos2(f) == PositionIn(x_ids_sorted_by_aggregate, f) + PositionIn(x_ids_sorted_by_topn, f)

\* C5 (as stated): the reported count is the size of the symmetric set
\* difference of the two top-number_of_questions slices, and the percentage
\* is that count / number_of_questions * 100 (stated for calls whose
\* number_of_questions does not exceed the number of features).
C5_CountIsSymmetricDifference ==
  (cfi_pc = "returned" /\ number_of_questions <= Len(x_ids_sorted_by_aggregate)) =>
    /\ diff = Cardinality(SymmetricDifference(ToSet(AggSlice), ToSet(TopnSlice)))
    /\ frac = <<diff * 100, number_of_questions>>

\* C5 (amended): the reported count is |number_of_questions - |union of the
\* two slices||.  With number_of_questions at most the number of features this
\* is the number of features of the aggregate slice that are missing from the
\* top-N slice, which is half the symmetric difference; with more questions
\* than features it is number_of_questions minus the number of features.  The
\* percentage is the count / number_of_questions * 100.
C5_CountIsHalfSymmetricDifference ==
  cfi_pc = "returned" =>
    /\ number_of_questions <= Len(x_ids_sorted_by_aggregate) =>
          /\ diff = Cardinality(ToSet(AggSlice) \ ToSet(TopnSlice))
          /\ 2 * diff = Cardinality(SymmetricDifference(ToSet(AggSlice), ToSet(TopnSlice)))
    /\ number_of_questions > Len(x_ids_sorted_by_aggregate) =>
          diff = number_of_questions - Len(x_ids_sorted_by_aggregate)
    /\ frac = <<diff * 100, number_of_questions>>

\* C5 witness: a call returned with slices that differ in at least one feature.
C5_Witness ==
  /\ cfi_pc = "returned"
  /\ number_of_questions < Len(x_ids_sorted_by_aggregate)
  /\ ToSet(AggSlice) # ToSet(TopnSlice)
  /\ diff >= 1

\* C6: the fused ordering is a permutation of all features in ascending order
\* of mean position, and features of equal mean position keep the order they
\* have in the aggregate ordering.
C6_FusedOrderTiesByAggregate ==
  cfi_pc = "returned" =>
    /\ Len(x_ids_sorted_average) = Len(x_ids_sorted_by_aggregate)
    /\ ToSet(x_ids_sorted_average) = ToSet(x_ids_sorted_by_aggregate)
    /\ \A i, j \in 1..Len(x_ids_sorted_average) :
          i < j =>
            LET fi == x_ids_sorted_average[i]
                fj == x_ids_sorted_average[j]
            IN /\ MeanPos2(fi) <= MeanPos2(fj)
               /\ MeanPos2(fi) = MeanPos2(fj) =>
                     PositionIn(x_ids_sorted_by_aggregate, fi)
                       < PositionIn(x_ids_sorted_by_aggregate, fj)

\* C7: a feature that is first in both orderings is first in the fused ordering.
C7_FirstInBothIsFirstFused ==
  (cfi_pc = "returned" /\ x_ids_sorted_by_aggregate[1] = x_ids_sorted_by_topn[1]) =>
    x_ids_sorted_average[1] = x_ids_sorted_by_aggregate[1]

\* C7 witness: the two orderings agree on the first feature only.
C7_Witness ==
  /\ cfi_pc = "returned"
  /\ Len(x_ids_sorted_by_aggregate) >= 3
  /\ x_ids_sorted_by_aggregate[1] = x_ids_sorted_by_topn[1]
  /\ x_ids_sorted_by_aggregate[2] # x_ids_sorted_by_topn[2]
  /\ x_ids_sorted_average[1] = x_ids_sorted_by_aggregate[1]

\* C8: with number_of_questions above the number of features the call fails
\* and returns nothing; a call that returns has number_of_questions at most
\* the number of features.
C8_TopNAboveFeaturesFails ==
  cfi_pc = "returned" => number_of_questions <= Len(x_ids_sorted_by_aggregate)

\* ------------------------------------------------------------- claims on run
\* The loaded diagnoses whose baseline summary has a defined LR+.
DefinedLRp == {d \in loaded_Dx : baseline_summaries[d] # NaN}

\* C9: the baseline fit reports every loaded diagnosis, also those with an
\* undefined LR+; once it is filtered, the diagnosis set, the persisted
\* baseline tables, the learners handed to calculate_feature_importance and
\* the diagnoses handed to degrading_fit are exactly the loaded diagnoses with
\* a defined LR+.
C9_NaNDiagnosesRemoved ==
  /\ run_pc \notin {"load", "baseline"} => DOMAIN baseline_summaries = loaded_Dx
  /\ run_pc \in {"save_learners", "save_summaries", "importance", "degrading", "done"} =>
        Dx_labels_subset = DefinedLRp
  /\ run_pc \in {"save_summaries", "importance", "degrading", "done"} =>
        DOMAIN learners_parquet = DefinedLRp
  /\ run_pc \in {"importance", "degrading", "done"} =>
        /\ DOMAIN summaries_parquet = DefinedLRp
        /\ \A d \in DefinedLRp : summaries_parquet[d] = baseline_summaries[d]
  /\ run_pc \in {"degrading", "done"} => DOMAIN cfi_learners = DefinedLRp
  /\ run_pc = "done" => deg_y_ids = DefinedLRp

\* C9 witness: a run ended whose baseline fit gave one diagnosis an undefined
\* LR+ and two others a defined one.
C9_Witness ==
  /\ run_pc = "done"
  /\ \E d \in loaded_Dx : baseline_summaries[d] = NaN
  /\ Cardinality(deg_y_ids) >= 2
  /\ deg_y_ids # loaded_Dx

\* ------------------------------------------------------- claims on load_data
\* The rows of the relabelled input with no missing cell in the survey item
\* column or in a column of dxs.
CompleteRows(dxs) ==
  {k \in 1..Len(df_full) :
     df_full[k].x # NaN /\ \A d \in dxs : df_full[k].dx[d] # NaN}

\* What load_data returns is consistent: the dataset is exactly the complete
\* rows of the input over the survey items and the retained diagnoses, the
\* prevalence table counts exactly those rows for exactly those diagnoses,
\* and every retained diagnosis has at least threshold positives.
ReturnedConsistent ==
  ld_pc = "returned" =>
    /\ \A i \in 1..Len(df) :
          /\ DOMAIN df[i].dx = ld_Dx_labels_subset
          /\ df[i].x # NaN
          /\ \A d \in ld_Dx_labels_subset : df[i].dx[d] # NaN
          /\ df[i].x = df_full[df[i].idx].x
          /\ \A d \in ld_Dx_labels_subset : df[i].dx[d] = df_full[df[i].idx].dx[d]
    /\ {df[i].idx : i \in 1..Len(df)} = CompleteRows(ld_Dx_labels_subset)
    /\ Len(df) = Cardinality(CompleteRows(ld_Dx_labels_subset))
    /\ DOMAIN df_prev = ld_Dx_labels_subset
    /\ \A d \in ld_Dx_labels_subset :
          /\ df_prev[d].Pt = Cardinality({i \in 1..Len(df) : df[i].dx[d] = 1})
          /\ df_prev[d].HC = Cardinality({i \in 1..Len(df) : df[i].dx[d] = 0})
          /\ df_prev[d].Pt >= threshold

\* A pass of the loop that is followed by another pass removed a diagnosis.
PassShrinks ==
  (ld_pc = "loop" /\ ld_pc' = "loop" /\ low_N') =>
    (ld_Dx_labels_subset' \subseteq ld_Dx_labels_subset
       /\ ld_Dx_labels_subset' # ld_Dx_labels_subset)

\* The number of steps load_data can still take is bounded by this measure:
\* before the loop, in the loop with passes to come (one more than the number
\* of retained diagnoses), after the last pass, and once it has ended.
LoadMeasure ==
  CASE ld_pc = "start" -> Cardinality(Dx_labels_all) + 3
    [] ld_pc = "loop" /\ low_N -> Cardinality(ld_Dx_labels_subset) + 2
    [] ld_pc = "loop" /\ ~low_N -> 1
    [] OTHER -> 0

LoadEnded == ld_pc \in {"returned", "raised"}

\* A step of load_data can be taken: the guard of LoadInitialPrevalance, of
\* LoadPruningPass or of LoadReturn holds.
LoadCanStep ==
  \/ ld_pc = "start"
  \/ (ld_pc = "loop" /\ low_N)
  \/ (ld_pc = "loop" /\ ~low_N)

\* C10: the pruning loop ends for every input: each pass that is repeated
\* has shrunk the retained diagnosis set, every step lowers a measure that is
\* a natural number, and load_data is never stuck before it has returned or
\* raised.  Whenever load_data returns, the dataset has no missing value in
\* the survey item column or a retained diagnosis column, the prevalence
\* table is that of this dataset and diagnosis set, and every retained
\* diagnosis has at least threshold positive rows in it.
C10_PruningReachesFixedPoint ==
  /\ []ReturnedConsistent
  /\ [][PassShrinks /\ LoadMeasure' < LoadMeasure]_vars
  /\ [](LoadMeasure >= 0 /\ (LoadEnded \/ LoadCanStep))

\* C10 witness: load_data returned after a pass of the loop removed a
\* diagnosis that had passed the threshold on the sparse table.
C10_Witness ==
  /\ ld_pc = "returned"
  /\ \E d \in Dx_labels_all \ ld_Dx_labels_subset :
       Cardinality({k \in 1..Len(df_full) : df_full[k].dx[d] = 1}) >= threshold
  /\ ld_Dx_labels_subset # {}
  /\ Len(df) < Len(df_full)

====
